---- MODULE Spec2Model ----
(***************************************************************************)
(* Model of scripts/convert_audio_to_code.py: the build step that turns a  *)
(* directory tree of .wav recordings into sample_id.hpp, audio_samples.hpp *)
(* and one <name>.cpp per recording.                                       *)
(*                                                                         *)
(* One behaviour is a sequence of invocations of the script (a fresh       *)
(* process each) on one input tree and one output directory.               *)
(***************************************************************************)
EXTENDS Integers, Sequences, FiniteSets

VARIABLES
    tree,                   \* the input tree, in os.walk order (fixed per behaviour)
    run,                    \* number of the current invocation of the script
    pc,                     \* position of the process
    wav_files,              \* collect_wav_samples_files: the discovered paths
    idx,                    \* position of `for wav in wav_files`
    first_samples,          \* result of the first get_samples(wav) of line 171
    sample_list,            \* collect_wav_samples_files: sample_list
    SAMPLE_RATE,            \* module global, line 48
    TOTAL_NUMBER_OF_BYTES,  \* module global, line 49
    emit_idx,               \* position of main() among the artifacts it writes
    out,                    \* the output directory: path -> file contents
    handles,                \* the file handles currently open
    err,                    \* the exception that ended the run, if any
    written,                \* the artifacts this run has written, in order
    out0,                   \* the output directory as this run found it
    prev_ok                 \* whether the previous invocation exited with status 0

vars == <<tree, run, pc, wav_files, idx, first_samples, sample_list, SAMPLE_RATE,
          TOTAL_NUMBER_OF_BYTES, emit_idx, out, handles, err, written, out0, prev_ok>>

-----------------------------------------------------------------------------
(* Bounds of the model *)

MaxFiles == 2

MaxRuns == 2

-----------------------------------------------------------------------------
(* Input files *)

RequiredSampWidth == 2

RequiredFrameRate == 11025

RequiredChannels == 1

\* Header values of the inputs: 8 and 16 bit, 11025 and 22050 Hz, mono and stereo
SampWidths == {1, 2}

FrameRates == {11025, 22050}

ChannelCounts == {1, 2}

\* Raw frame data of the recordings used as inputs, as bytes.
FramePool == { <<>>, <<1, 0, 255, 255>>, <<0, 128, 255, 127, 0, 0>> }

\* A file: its path, what wave.open makes of it (container), the values of its
\* fmt chunk, the size its data chunk declares and the data bytes it holds.
MkFile(dir, stem, ext, w, r, c, d) ==
    [dir |-> dir, stem |-> stem, ext |-> ext, container |-> "RIFF/PCM",
     sampwidth |-> w, framerate |-> r, nchannels |-> c,
     declared |-> Len(d), data |-> d]

\* Files wave.open rejects: not a RIFF file, a file of 0 bytes, IEEE float data
BadContainers == { "not RIFF", "zero bytes", "format 3" }

WavPaths == { <<"a", "beep">>, <<"b", "beep">>, <<"a", "Beep">>, <<"b", "tone">> }

BadPaths == { <<"a", "beep">>, <<"b", "tone">> }

Formats == { <<w, r, c>> : w \in SampWidths, r \in FrameRates, c \in ChannelCounts }

GoodFormat == <<RequiredSampWidth, RequiredFrameRate, RequiredChannels>>

FilePool ==
    { MkFile(p[1], p[2], "wav", GoodFormat[1], GoodFormat[2], GoodFormat[3], d) :
        p \in WavPaths, d \in FramePool }
    \cup
    { MkFile(p[1], p[2], "wav", f[1], f[2], f[3], <<>>) :
        p \in BadPaths, f \in Formats \ {GoodFormat} }
    \cup
    { MkFile("a", "notes", "txt", GoodFormat[1], GoodFormat[2], GoodFormat[3], <<>>) }
    \cup
    { [MkFile("a", "beep", "wav", GoodFormat[1], GoodFormat[2], GoodFormat[3], <<>>)
         EXCEPT !.container = k] : k \in BadContainers }
    \cup
    \* a data chunk that declares 8 bytes and holds 4; one followed by 2 more bytes
    { [MkFile("b", "tone", "wav", GoodFormat[1], GoodFormat[2], GoodFormat[3],
              <<1, 0, 255, 255>>) EXCEPT !.declared = 8],
      [MkFile("b", "tone", "wav", GoodFormat[1], GoodFormat[2], GoodFormat[3],
              <<5, 0, 9, 9>>) EXCEPT !.declared = 2] }

PathOf(f) == <<f.dir, f.stem, f.ext>>

\* os.walk lists each directory once: the files of one directory are adjacent,
\* and no two files have the same path.
IsWalk(t) ==
    /\ \A i, j \in 1..Len(t) : i # j => PathOf(t[i]) # PathOf(t[j])
    /\ \A i, j, k \in 1..Len(t) :
         (i < j /\ j < k /\ t[i].dir = t[k].dir) => t[j].dir = t[i].dir

Trees ==
    { t \in UNION { [1..n -> FilePool] : n \in 0..MaxFiles } : IsWalk(t) }

-----------------------------------------------------------------------------
(* Pure functions of the script *)

\* file.endswith(".wav")
endswith_wav(f) == f.ext = "wav"

\* os.path.splitext(os.path.basename(wav))[0]
sample_name_of(f) == f.stem

\* str.upper() on the names of the inputs
upper(s) ==
    CASE s = "beep" -> "BEEP"
      [] s = "Beep" -> "BEEP"
      [] s = "tone" -> "TONE"
      [] s = "notes" -> "NOTES"
      [] OTHER -> s

\* wav.getnframes(): the data chunk's declared size over the frame size
getnframes(f) == f.declared \div (f.sampwidth * f.nchannels)

\* wav.readframes(n): at most n frames, at most the declared size, and no more
\* than the file holds
readframes(f, n) ==
    LET want == n * (f.sampwidth * f.nchannels)
        have == IF f.declared < Len(f.data) THEN f.declared ELSE Len(f.data)
    IN SubSeq(f.data, 1, IF want < have THEN want ELSE have)

\* struct.unpack raises struct.error unless the buffer holds 2 bytes per item
unpack_fits(frames, num_samples) == Len(frames) = 2 * num_samples

\* one '<h' item: little-endian signed 16 bit
int16_le(lo, hi) ==
    LET u == lo + 256 * hi IN IF u >= 32768 THEN u - 65536 ELSE u

\* struct.unpack(f'<{num_samples}h', frames)
unpack(frames, num_samples) ==
    [i \in 1..num_samples |-> int16_le(frames[2 * i - 1], frames[2 * i])]

\* get_samples without `assert wav.getnchannels() == 1`
CheckFormatNoChannels(f) ==
    IF f.sampwidth # RequiredSampWidth THEN "WAV file is not 16-bit"
    ELSE IF f.framerate # RequiredFrameRate THEN "WAV file is not 11025 Hz"
    ELSE ""

\* get_samples without `assert wav.getframerate() == 11025`
CheckFormatNoRate(f) ==
    IF f.sampwidth # RequiredSampWidth THEN "WAV file is not 16-bit"
    ELSE IF f.nchannels # RequiredChannels THEN "WAV file is not mono"
    ELSE ""

\* the rate assert carrying the message of the width assert
CheckFormatCopiedMessage(f) ==
    IF f.sampwidth # RequiredSampWidth THEN "WAV file is not 16-bit"
    ELSE IF f.framerate # RequiredFrameRate THEN "WAV file is not 16-bit"
    ELSE IF f.nchannels # RequiredChannels THEN "WAV file is not mono"
    ELSE ""

\* The three asserts of get_samples, in order: the message of the first that
\* fails, or "" when all hold.
CheckFormat(f) ==
    IF f.sampwidth # RequiredSampWidth THEN "WAV file is not 16-bit"
    ELSE IF f.framerate # RequiredFrameRate THEN "WAV file is not 11025 Hz"
    ELSE IF f.nchannels # RequiredChannels THEN "WAV file is not mono"
    ELSE ""

NoError == [type |-> "none", msg |-> "", paths |-> {}]

\* The AssertionError of a failed assert: its message is the literal of the
\* assert statement and mentions no path.
AssertionError(f) == [type |-> "AssertionError", msg |-> CheckFormat(f), paths |-> {}]

\* The OSError of a failed open() names the path it failed on.
OSError(p) == [type |-> "OSError", msg |-> "cannot open", paths |-> {p}]

\* The OSError of a failed f.write()/close() carries no filename.
WriteError == [type |-> "OSError", msg |-> "cannot write", paths |-> {}]

\* What wave.open raises on a file it rejects; none of them names the path.
WaveOpenError(f) ==
    IF f.container = "not RIFF"
    THEN [type |-> "wave.Error", msg |-> "file does not start with RIFF id", paths |-> {}]
    ELSE IF f.container = "zero bytes"
    THEN [type |-> "EOFError", msg |-> "", paths |-> {}]
    ELSE [type |-> "wave.Error", msg |-> "unknown format: 3", paths |-> {}]

\* What struct.unpack raises on a short buffer
StructError == [type |-> "struct.error", msg |-> "unpack requires a buffer", paths |-> {}]

\* the accumulator counting samples instead of bytes
ByteSizeUnscaled(num_samples) == num_samples

\* data.num_samples * 2
ByteSize(num_samples) == num_samples * 2

SampleMetadata(f, samples, n) ==
    [full_path |-> PathOf(f), sample_name |-> sample_name_of(f),
     samples |-> samples, num_samples |-> n]

generated_warning == "THIS FILE IS AUTOGENERATED, created by convert_audio_to_code.py"

Absent == [kind |-> "absent"]

\* A file opened with mode 'w' and not yet written to
Truncated == [kind |-> "empty"]

\* A file holding a proper prefix of the text that was being written to it
Partial(contents) == [kind |-> "partial", of |-> contents]

\* The text of sample_id.hpp
sample_id_contents(samples, total, rate) ==
    [kind |-> "sample_id.hpp",
     banner |-> generated_warning,
     total_bytes |-> total,
     sample_rate |-> rate,
     enum |-> <<[name |-> "BEGIN_SAMPLES", init |-> "0"]>>
              \o [i \in 1..Len(samples) |->
                    [name |-> upper(samples[i].sample_name),
                     init |-> IF i = 1 THEN "BEGIN_SAMPLES" ELSE ""]]
              \o <<[name |-> "END_SAMPLES", init |-> ""],
                   [name |-> "NUM_SAMPLES", init |-> "END_SAMPLES"]>>]

\* The text of audio_samples.hpp
audio_samples_contents(samples, total) ==
    [kind |-> "audio_samples.hpp",
     banner |-> generated_warning,
     total_bytes |-> total,
     externs |-> [i \in 1..Len(samples) |->
                    [name |-> samples[i].sample_name, size |-> samples[i].num_samples]],
     lookup |-> [i \in 1..Len(samples) |-> samples[i].sample_name]]

\* The text of <sample_name>.cpp
cpp_contents(sample) ==
    [kind |-> "cpp",
     banner |-> generated_warning,
     name |-> sample.sample_name,
     size |-> sample.num_samples,
     values |-> sample.samples]

HeaderPath(name) == <<"out", name, "hpp">>

CppPath(name) == <<"out", name, "cpp">>

OutPaths ==
    { HeaderPath("audio_samples"), HeaderPath("sample_id") }
    \cup { CppPath(p[2]) : p \in WavPaths }

\* main(): the j-th artifact written, as <<kind, position of the sample>>
Target(j) ==
    IF j = 1 THEN <<"audio_samples", 0>>
    ELSE IF j = 2 THEN <<"sample_id", 0>>
    ELSE <<"cpp", j - 2>>

TargetPath(t, samples) ==
    IF t[1] = "cpp" THEN CppPath(samples[t[2]].sample_name) ELSE HeaderPath(t[1])

TargetContents(t, samples, total, rate) ==
    IF t[1] = "audio_samples" THEN audio_samples_contents(samples, total)
    ELSE IF t[1] = "sample_id" THEN sample_id_contents(samples, total, rate)
    ELSE cpp_contents(samples[t[2]])

NumTargets(samples) == 2 + Len(samples)

\* open(path, 'w') on an existing or new file
OpenForWrite(dir, p) == [dir EXCEPT ![p] = Truncated]

\* a file opened without `with` and never closed
ReleaseLeak(hs, p) == hs

\* leaving a `with` block, normally or by an exception
Release(hs, p) == hs \ {p}

\* globals that survive from one invocation to the next
KeepGlobal(old) == old

\* The module-level initialisation of the two globals in a new process
FreshGlobal(old) == 0

-----------------------------------------------------------------------------
(* The C++ reading of the generated enumeration *)

FirstNamed(enum, name) ==
    CHOOSE j \in 1..Len(enum) :
        /\ enum[j].name = name
        /\ \A k \in 1..(j - 1) : enum[k].name # name

RECURSIVE EnumArith(_, _)
EnumArith(enum, k) ==
    IF enum[k].init = "0" THEN 0
    ELSE IF enum[k].init = "" THEN (IF k = 1 THEN 0 ELSE EnumArith(enum, k - 1) + 1)
    ELSE EnumArith(enum, FirstNamed(enum, enum[k].init))

\* An enumeration that declares a name twice is rejected by the compiler
EnumCompiles(enum) ==
    \A i, j \in 1..Len(enum) : i # j => enum[i].name # enum[j].name

\* The value of the k-th enumerator: {v}, or {} when the header does not compile
EnumValue(enum, k) == IF EnumCompiles(enum) THEN {EnumArith(enum, k)} ELSE {}

\* static_cast<std::size_t>(AUDIO_SAMPLE_ID::NUM_SAMPLES): {v}, or {} when the
\* header does not compile
NumSamplesValue(id_hpp) == EnumValue(id_hpp.enum, Len(id_hpp.enum))

-----------------------------------------------------------------------------
(* The process *)

Init ==
    /\ tree \in Trees
    /\ run = 1
    /\ pc = "start"
    /\ wav_files = <<>>
    /\ idx = 1
    /\ first_samples = <<>>
    /\ sample_list = <<>>
    /\ SAMPLE_RATE = 0
    /\ TOTAL_NUMBER_OF_BYTES = 0
    /\ emit_idx = 1
    /\ out = [p \in OutPaths |-> Absent]
    /\ handles = {}
    /\ err = NoError
    /\ written = <<>>
    /\ out0 = [p \in OutPaths |-> Absent]
    /\ prev_ok = FALSE

\* lines 162-166: the walk
Discover ==
    /\ pc = "start"
    /\ wav_files' = SelectSeq(tree, endswith_wav)
    /\ pc' = IF Len(wav_files') = 0 THEN "emit" ELSE "load1"
    /\ UNCHANGED <<tree, run, idx, first_samples, sample_list, SAMPLE_RATE,
                   TOTAL_NUMBER_OF_BYTES, emit_idx, out, handles, err, written,
                   out0, prev_ok>>

\* line 54: wave.open raises: the file cannot be opened (OSError, which names
\* the path) or is no RIFF/PCM file (wave.Error, EOFError); wave.open closes
\* what it opened and the exception ends the process
OpenWavFail ==
    /\ pc \in {"load1", "load2"}
    /\ \/ err' = OSError(PathOf(wav_files[idx]))
       \/ /\ wav_files[idx].container \in BadContainers
          /\ err' = WaveOpenError(wav_files[idx])
    /\ pc' = "aborted"
    /\ UNCHANGED <<tree, run, wav_files, idx, first_samples, sample_list, SAMPLE_RATE,
                   TOTAL_NUMBER_OF_BYTES, emit_idx, out, handles, written, out0, prev_ok>>

\* line 54: wave.open(wav_file, 'rb'), for either call of get_samples
OpenWav ==
    /\ pc \in {"load1", "load2"}
    /\ wav_files[idx].container \notin BadContainers
    /\ handles' = handles \cup {PathOf(wav_files[idx])}
    /\ pc' = IF pc = "load1" THEN "decode1" ELSE "decode2"
    /\ UNCHANGED <<tree, run, wav_files, idx, first_samples, sample_list, SAMPLE_RATE,
                   TOTAL_NUMBER_OF_BYTES, emit_idx, out, err, written, out0, prev_ok>>

\* lines 55-57: an assert fails; the with block closes the file and the
\* exception ends the process
DecodeFail ==
    /\ pc \in {"decode1", "decode2"}
    /\ CheckFormat(wav_files[idx]) # ""
    /\ err' = AssertionError(wav_files[idx])
    /\ handles' = Release(handles, PathOf(wav_files[idx]))
    /\ pc' = "aborted"
    /\ UNCHANGED <<tree, run, wav_files, idx, first_samples, sample_list, SAMPLE_RATE,
                   TOTAL_NUMBER_OF_BYTES, emit_idx, out, written, out0, prev_ok>>

\* lines 55-65: the asserts hold and SAMPLE_RATE is set, but the file holds
\* fewer bytes than its header declares: struct.unpack raises, the with block
\* closes the file and the exception ends the process
DecodeShort ==
    /\ pc \in {"decode1", "decode2"}
    /\ CheckFormat(wav_files[idx]) = ""
    /\ LET n == getnframes(wav_files[idx])
       IN ~unpack_fits(readframes(wav_files[idx], n), n)
    /\ SAMPLE_RATE' = wav_files[idx].framerate
    /\ err' = StructError
    /\ handles' = Release(handles, PathOf(wav_files[idx]))
    /\ pc' = "aborted"
    /\ UNCHANGED <<tree, run, wav_files, idx, first_samples, sample_list,
                   TOTAL_NUMBER_OF_BYTES, emit_idx, out, written, out0, prev_ok>>

\* lines 55-66 for `samples=get_samples(wav)`
DecodeFirst ==
    /\ pc = "decode1"
    /\ CheckFormat(wav_files[idx]) = ""
    /\ LET n == getnframes(wav_files[idx])
       IN /\ unpack_fits(readframes(wav_files[idx], n), n)
          /\ first_samples' = unpack(readframes(wav_files[idx], n), n)
    /\ SAMPLE_RATE' = wav_files[idx].framerate
    /\ handles' = Release(handles, PathOf(wav_files[idx]))
    /\ pc' = "load2"
    /\ UNCHANGED <<tree, run, wav_files, idx, sample_list, TOTAL_NUMBER_OF_BYTES,
                   emit_idx, out, err, written, out0, prev_ok>>

\* lines 55-66 for `num_samples=len(get_samples(wav))`, then lines 169-173
DecodeSecond ==
    /\ pc = "decode2"
    /\ CheckFormat(wav_files[idx]) = ""
    /\ SAMPLE_RATE' = wav_files[idx].framerate
    /\ handles' = Release(handles, PathOf(wav_files[idx]))
    /\ LET nf == getnframes(wav_files[idx])
           n == Len(unpack(readframes(wav_files[idx], nf), nf))
           data == SampleMetadata(wav_files[idx], first_samples, n)
       IN /\ unpack_fits(readframes(wav_files[idx], nf), nf)
          /\ sample_list' = Append(sample_list, data)
          /\ TOTAL_NUMBER_OF_BYTES' = TOTAL_NUMBER_OF_BYTES + ByteSize(data.num_samples)
    /\ idx' = idx + 1
    /\ first_samples' = <<>>
    /\ pc' = IF idx' > Len(wav_files) THEN "emit" ELSE "load1"
    /\ UNCHANGED <<tree, run, wav_files, emit_idx, out, err, written, out0, prev_ok>>

\* open(path, 'w') of lines 96, 133, 155 succeeds: the file is created or truncated
OpenOut ==
    /\ pc = "emit"
    /\ LET p == TargetPath(Target(emit_idx), sample_list)
       IN /\ out' = OpenForWrite(out, p)
          /\ handles' = handles \cup {p}
    /\ pc' = "write"
    /\ UNCHANGED <<tree, run, wav_files, idx, first_samples, sample_list, SAMPLE_RATE,
                   TOTAL_NUMBER_OF_BYTES, emit_idx, err, written, out0, prev_ok>>

\* open(path, 'w') raises (unwritable output): nothing is opened or changed
OpenOutFail ==
    /\ pc = "emit"
    /\ err' = OSError(TargetPath(Target(emit_idx), sample_list))
    /\ pc' = "aborted"
    /\ UNCHANGED <<tree, run, wav_files, idx, first_samples, sample_list, SAMPLE_RATE,
                   TOTAL_NUMBER_OF_BYTES, emit_idx, out, handles, written, out0, prev_ok>>

\* f.write(contents) and the end of the with block
WriteClose ==
    /\ pc = "write"
    /\ LET t == Target(emit_idx)
           p == TargetPath(t, sample_list)
       IN /\ out' = [out EXCEPT ![p] =
                        TargetContents(t, sample_list, TOTAL_NUMBER_OF_BYTES, SAMPLE_RATE)]
          /\ handles' = Release(handles, p)
          /\ written' = Append(written, t)
    /\ emit_idx' = emit_idx + 1
    /\ pc' = IF emit_idx' > NumTargets(sample_list) THEN "done" ELSE "emit"
    /\ UNCHANGED <<tree, run, wav_files, idx, first_samples, sample_list, SAMPLE_RATE,
                   TOTAL_NUMBER_OF_BYTES, err, out0, prev_ok>>

\* f.write or the flush at the end of the with block raises: the file is
\* closed and is left empty or with the part of the text that reached it
WriteFail ==
    /\ pc = "write"
    /\ LET t == Target(emit_idx)
           p == TargetPath(t, sample_list)
       IN /\ \E c \in { Truncated,
                         Partial(TargetContents(t, sample_list, TOTAL_NUMBER_OF_BYTES,
                                                SAMPLE_RATE)) } :
               out' = [out EXCEPT ![p] = c]
          /\ err' = WriteError
          /\ handles' = Release(handles, p)
    /\ pc' = "aborted"
    /\ UNCHANGED <<tree, run, wav_files, idx, first_samples, sample_list, SAMPLE_RATE,
                   TOTAL_NUMBER_OF_BYTES, emit_idx, written, out0, prev_ok>>

\* The build invokes the script again on the same tree and output directory:
\* a new process, whose module-level code (lines 48-49) runs again.
Rerun ==
    /\ pc \in {"done", "aborted"}
    /\ run < MaxRuns
    /\ run' = run + 1
    /\ prev_ok' = (pc = "done")
    /\ out0' = out
    /\ pc' = "start"
    /\ wav_files' = <<>>
    /\ idx' = 1
    /\ first_samples' = <<>>
    /\ sample_list' = <<>>
    /\ SAMPLE_RATE' = FreshGlobal(SAMPLE_RATE)
    /\ TOTAL_NUMBER_OF_BYTES' = FreshGlobal(TOTAL_NUMBER_OF_BYTES)
    /\ emit_idx' = 1
    /\ handles' = {}
    /\ err' = NoError
    /\ written' = <<>>
    /\ UNCHANGED <<tree, out>>

Next ==
    \/ Discover
    \/ OpenWavFail
    \/ OpenWav
    \/ DecodeFail
    \/ DecodeShort
    \/ DecodeFirst
    \/ DecodeSecond
    \/ OpenOut
    \/ OpenOutFail
    \/ WriteClose
    \/ WriteFail
    \/ Rerun

Spec == Init /\ [][Next]_vars

-----------------------------------------------------------------------------
(* Vocabulary of the properties *)

Discovered == SelectSeq(tree, endswith_wav)

\* A file breaks one of the three format constraints (read off its header)
ViolatesFormat(f) ==
    \/ f.sampwidth * 8 # 16
    \/ f.framerate # 11025
    \/ f.nchannels # 1

HasInvalidFile == \E i \in 1..Len(Discovered) : ViolatesFormat(Discovered[i])

RECURSIVE SumSizes(_)
SumSizes(s) == IF s = <<>> THEN 0 ELSE s[1] + SumSizes(Tail(s))

HasWritten(kind) == \E i \in 1..Len(written) : written[i][1] = kind

SamplesHpp == out[HeaderPath("audio_samples")]

SampleIdHpp == out[HeaderPath("sample_id")]

\* The lookup table of audio_samples.hpp as the compiler builds it: NUM_SAMPLES
\* slots, filled from the initialiser list, the rest value-initialised.
LookupSize == NumSamplesValue(SampleIdHpp)

\* The lengths the extern declarations give to an array name
DeclaredSizes(hpp, name) ==
    { hpp.externs[i].size : i \in { j \in 1..Len(hpp.externs) : hpp.externs[j].name = name } }

\* The position of sample i's member in the enumeration: after BEGIN_SAMPLES
MemberValue(i) == EnumValue(SampleIdHpp.enum, i + 1)

-----------------------------------------------------------------------------
(* C1 *)

\* C1: when some discovered .wav file breaks a format constraint, the run
\* never reaches emission and never exits successfully, wherever the file is
\* in discovery order: nothing is written by the run, the output directory
\* stays as the run found it, and the run ends by an exception raised while
\* loading (the failed assert, or an earlier file's open or read error).
C1_AbortBeforeAnyArtifact ==
    HasInvalidFile =>
        /\ pc \notin {"emit", "write", "done"}
        /\ written = <<>>
        /\ out = out0
        /\ pc = "aborted" => (err.type # "none" /\ err # WriteError)

\* An abort on an invalid file that follows a valid, fully loaded one
C1_Witness ==
    /\ HasInvalidFile
    /\ pc = "aborted"
    /\ err.type = "AssertionError"
    /\ Len(sample_list) >= 1
    /\ written = <<>>

-----------------------------------------------------------------------------
(* C2 *)

\* C2 (as claimed): after a successful run the value of NUM_SAMPLES in
\* sample_id.hpp equals the number of .wav files discovered, for every n >= 0.
C2_NumSamplesIsFileCount ==
    pc = "done" => NumSamplesValue(SampleIdHpp) = {Len(Discovered)}

-----------------------------------------------------------------------------
(* C3 *)

\* C3: while loading, the accumulator is twice the sum of the lengths of the
\* samples loaded so far, each length being the frame count of its file; once
\* audio_samples.hpp is written its TOTAL_NUMBER_OF_BYTES is twice the sum of
\* the declared array lengths of all discovered files.
C3_TotalBytes ==
    /\ TOTAL_NUMBER_OF_BYTES =
         2 * SumSizes([i \in 1..Len(sample_list) |-> Len(sample_list[i].samples)])
    /\ \A i \in 1..Len(sample_list) :
         /\ sample_list[i].num_samples = Len(sample_list[i].samples)
         /\ sample_list[i].num_samples = getnframes(wav_files[i])
         /\ 2 * sample_list[i].num_samples = wav_files[i].declared
    /\ HasWritten("audio_samples") =>
         /\ Len(SamplesHpp.externs) = Len(Discovered)
         /\ SamplesHpp.total_bytes =
              2 * SumSizes([i \in 1..Len(SamplesHpp.externs) |-> SamplesHpp.externs[i].size])

\* A finished run over two non-empty recordings
C3_Witness ==
    /\ pc = "done"
    /\ Len(sample_list) = 2
    /\ sample_list[1].num_samples > 0
    /\ sample_list[2].num_samples > 0
    /\ SamplesHpp.total_bytes = TOTAL_NUMBER_OF_BYTES

-----------------------------------------------------------------------------
(* C4 *)

\* C4 (as claimed): after a successful run over n files the lookup table has
\* exactly n entries, entry i names the array of the i-th discovered sample
\* and has its length, and that sample's enumeration member has value i
\* (counting from 0).
C4_LookupMatchesEnumeration ==
    pc = "done" =>
        /\ LookupSize = {Len(Discovered)}
        /\ Len(SamplesHpp.lookup) = Len(Discovered)
        /\ \A i \in 1..Len(Discovered) :
             /\ SamplesHpp.lookup[i] = sample_name_of(Discovered[i])
             /\ DeclaredSizes(SamplesHpp, SamplesHpp.lookup[i]) = {getnframes(Discovered[i])}
             /\ MemberValue(i) = {i - 1}

-----------------------------------------------------------------------------
(* C5 *)

\* C5 (as claimed): after a successful run the number of .cpp files written
\* equals the number of discovered .wav files and each sample's file holds
\* that sample's values, for every tree.
C5_OneCppPerSample ==
    pc = "done" =>
        /\ Cardinality({ TargetPath(written[i], sample_list) :
                           i \in { j \in 1..Len(written) : written[j][1] = "cpp" } })
             = Len(Discovered)
        /\ \A i \in 1..Len(sample_list) :
             out[CppPath(sample_list[i].sample_name)] = cpp_contents(sample_list[i])

-----------------------------------------------------------------------------
(* C6 *)

\* The constraint an assert message speaks of
ConstraintViolated(f, msg) ==
    \/ msg = "WAV file is not 16-bit" /\ f.sampwidth * 8 # 16
    \/ msg = "WAV file is not 11025 Hz" /\ f.framerate # 11025
    \/ msg = "WAV file is not mono" /\ f.nchannels # 1

\* C6 (as claimed): a format-violation abort carries an error that identifies
\* the offending file and a constraint that file violates.
C6_ErrorNamesFileAndConstraint ==
    (pc = "aborted" /\ err.type = "AssertionError") =>
        /\ PathOf(wav_files[idx]) \in err.paths
        /\ ConstraintViolated(wav_files[idx], err.msg)

\* C6 (amended): a format-violation abort carries an AssertionError whose
\* message names a constraint the offending file violates, namely the first
\* violated one in the order bit depth, sample rate, channel count; the error
\* names no file.
C6_ErrorNamesConstraintOnly ==
    (pc = "aborted" /\ err.type = "AssertionError") =>
        /\ ViolatesFormat(wav_files[idx])
        /\ ConstraintViolated(wav_files[idx], err.msg)
        /\ err.msg = "WAV file is not 11025 Hz" => wav_files[idx].sampwidth * 8 = 16
        /\ err.msg = "WAV file is not mono" =>
              (wav_files[idx].sampwidth * 8 = 16 /\ wav_files[idx].framerate = 11025)
        /\ err.paths = {}

\* An abort on a 16-bit file that has both the wrong rate and two channels
C6_Witness ==
    /\ pc = "aborted"
    /\ err.type = "AssertionError"
    /\ wav_files[idx].sampwidth = 2
    /\ wav_files[idx].framerate # 11025
    /\ wav_files[idx].nchannels # 1
    /\ err.msg = "WAV file is not 11025 Hz"

-----------------------------------------------------------------------------
(* C7 *)

\* C7: when the script is run again on the same tree and output directory and
\* both runs succeed, the second run leaves the output directory exactly as
\* the first left it, and its headers carry the totals of this run alone.
C7_RerunIdentical ==
    (run >= 2 /\ prev_ok /\ pc = "done") =>
        /\ out = out0
        /\ SamplesHpp = audio_samples_contents(sample_list,
               2 * SumSizes([i \in 1..Len(sample_list) |-> sample_list[i].num_samples]))

\* A second successful run over a non-empty recording
C7_Witness ==
    /\ run = 2
    /\ prev_ok
    /\ pc = "done"
    /\ TOTAL_NUMBER_OF_BYTES > 0
    /\ out = out0

-----------------------------------------------------------------------------
(* C8 *)

\* C8: at most one file handle is open at any time, and none is open when the
\* process starts, is between files, or has ended (successfully or by abort).
C8_HandlesScoped ==
    /\ Cardinality(handles) <= 1
    /\ pc \in {"start", "load1", "load2", "emit", "done", "aborted"} => handles = {}

\* An abort by a failed write after earlier files were opened and closed
C8_Witness ==
    /\ pc = "aborted"
    /\ err.type = "OSError"
    /\ written # <<>>
    /\ Len(sample_list) >= 1
    /\ handles = {}

-----------------------------------------------------------------------------
(* C9 *)

\* C9: within a run, once SAMPLE_RATE is set no later step changes it; it
\* equals the rate of every loaded file, and the SAMPLE_RATE written to
\* sample_id.hpp is the rate of the first decoded file.
C9_SampleRateFixed ==
    /\ [](/\ \A i \in 1..Len(sample_list) : SAMPLE_RATE = wav_files[i].framerate
          /\ (HasWritten("sample_id") /\ Len(wav_files) >= 1) =>
                SampleIdHpp.sample_rate = wav_files[1].framerate)
    /\ [][(run' = run /\ SAMPLE_RATE # 0) => SAMPLE_RATE' = SAMPLE_RATE]_vars

\* sample_id.hpp written after two files were decoded (four writes of the global)
C9_Witness ==
    /\ HasWritten("sample_id")
    /\ Len(sample_list) = 2
    /\ SampleIdHpp.sample_rate = 11025

-----------------------------------------------------------------------------
(* C10 *)

ExpectedTarget(i) ==
    IF i = 1 THEN <<"audio_samples", 0>>
    ELSE IF i = 2 THEN <<"sample_id", 0>>
    ELSE <<"cpp", i - 2>>

\* C10 (as claimed): nothing is written before every discovered file is
\* decoded; the artifacts are then written one at a time in the order
\* audio_samples.hpp, sample_id.hpp, first sample's .cpp, second sample's
\* .cpp, ...; and when a run has aborted, every artifact it wrote before the
\* failure is left as it was written.
C10_StrictSequenceKeepsWritten ==
    /\ \A i \in 1..Len(written) : written[i] = ExpectedTarget(i)
    /\ emit_idx = Len(written) + 1
    /\ (written # <<>> \/ pc \in {"emit", "write", "done"}) =>
          (wav_files = Discovered /\ Len(sample_list) = Len(wav_files))
    /\ pc \in {"start", "load1", "decode1", "load2", "decode2"} =>
          (written = <<>> /\ out = out0)
    /\ pc = "aborted" =>
          \A i \in 1..Len(written) :
              out[TargetPath(written[i], sample_list)] =
                  TargetContents(written[i], sample_list, TOTAL_NUMBER_OF_BYTES, SAMPLE_RATE)

====
